---- MODULE Spec2Model ----
(***************************************************************************)
(* Model of mancala.py: the State class (board engine and playout         *)
(* advisor).  Python lists live in a heap of cells so that sharing of a    *)
(* list between two State objects is visible; a State object holds the     *)
(* address of its board list.                                              *)
(***************************************************************************)
EXTENDS Integers, Sequences, FiniteSets, TLC

\* ------------------------------------------------------------------ bounds
\* longest list handed to State(...)
MaxLen == 6
\* most beads on a board handed to State(...)
MaxTotal == 4

\* most beads on a board handed to State(...) for the queries and the advisor
MaxAsked == 5
\* most playouts per candidate move asked of the advisor
MaxRuns == 2

\* limits main asserts on its arguments
MinBoard == 4
MaxBoard == 100
RunsLimit == 1000

\* default of the runs parameter of State.__init__
DefaultRuns == 100

VARIABLES
    heap,   \* address -> contents of the Python list stored there
    live,   \* addresses that hold a list some State still refers to
    names,  \* the caller's variables s, t: each None or a State object
    made,   \* for each variable, the board contents when its State was returned
    last,   \* the last call made: operation, arguments and outcome
    pc,     \* "start" before the first State is constructed, then "play";
            \* "raised" once a call has raised: State catches nothing, so the
            \* exception leaves the caller with the heap as the call left it
    args    \* the command line flags main parsed

vars == <<heap, live, names, made, last, pc, args>>

Names == {"s", "t"}
Addrs == 1..(Cardinality(Names) + 1)
Players == {"ONE", "TWO"}
NoState == [tag |-> "None"]

\* ------------------------------------------------------------ Python lists
Get(l, i) == l[i + 1]
Put(l, i, v) == [l EXCEPT ![i + 1] = v]
InList(x, l) == \E i \in 1..Len(l) : l[i] = x

RECURSIVE sum(_)
sum(l) == IF l = <<>> THEN 0 ELSE Head(l) + sum(Tail(l))

\* l[a:b] for 0 <= a <= b <= len(l)
Slice(l, a, b) == SubSeq(l, a + 1, b)

\* ----------------------------------------------------------------- Player
\* mutant: the player stays the same
otherSame(self) == self

other(self) == IF self = "TWO" THEN "ONE" ELSE "TWO"

\* ------------------------------------------------------------------ State
\* outcome of a call: a value or a raised exception
Return(v) == [ok |-> TRUE, error |-> "", value |-> v]
Raise(e) == [ok |-> FALSE, error |-> e, value |-> <<>>]

\* mutant: the length is not checked at all
EvenLengthUnchecked(board) == TRUE

\* the length check of __init__: the assertion message reads self.END before
\* it is set, so a failing assertion surfaces as AttributeError
EvenLength(board) == (Len(board) % 2) = 0

\* the fields __init__ sets, for a board list stored at address a
StateFields(a, board, runs) ==
    LET HALF == Len(board) \div 2
    IN  [tag |-> "State", board |-> a, runs |-> runs,
         START |-> 0, HALF |-> HALF, END |-> Len(board),
         POTS |-> [n \in 1..(HALF - 1) |-> n],
         OFFSETS |-> [ONE |-> 0, TWO |-> HALF]]

StateInit(a, board, runs) ==
    IF ~EvenLength(board) THEN Raise("AttributeError")
    ELSE Return(StateFields(a, board, runs))

\* the assertion 0 <= pos < self.END of the three position methods
ValidPos(self, pos) == 0 <= pos /\ pos < self.END

\* mutant: the base is not excluded
in_p1_rangeWithBase(self, pos) == ((pos \div self.HALF) % 2) = 0

in_p1_range(self, pos) ==
    pos # self.OFFSETS["ONE"] /\ ((pos \div self.HALF) % 2) = 0

in_p2_range(self, pos) ==
    pos # self.OFFSETS["TWO"] /\ ((pos \div self.HALF) % 2) = 1

\* None is modelled as -1
get_opposite(self, pos) ==
    IF pos \in {self.OFFSETS["ONE"], self.OFFSETS["TWO"]} THEN -1
    ELSE self.END - pos

\* mutant: only player ONE skips the opponent's base
SkipBaseOneOnly(self, player, pos) ==
    player = "ONE" /\ pos = self.OFFSETS["TWO"]

\* mutant: no position is skipped
SkipBaseNever(self, player, pos) == FALSE

\* "skip the opponent's base"
SkipBase(self, player, pos) ==
    \/ (player = "ONE" /\ pos = self.OFFSETS["TWO"])
    \/ (player = "TWO" /\ pos = self.OFFSETS["ONE"])

\* mutant: the loop walks the board upwards, pos = (pos + 1) % self.END
RECURSIVE DropUp(_, _, _, _, _)
DropUp(self, new_board, pos, beads, player) ==
    LET p == (pos + 1) % self.END
        skip == SkipBase(self, player, p)
        b == IF skip THEN new_board ELSE Put(new_board, p, Get(new_board, p) + 1)
        n == IF skip THEN beads ELSE beads - 1
    IN  IF n = 0 THEN [new_board |-> b, final_pos |-> p]
        ELSE DropUp(self, b, p, n, player)

\* "drop off beads around the board": the while loop of move
RECURSIVE Drop(_, _, _, _, _)
Drop(self, new_board, pos, beads, player) ==
    LET p == (pos - 1) % self.END
        skip == SkipBase(self, player, p)
        b == IF skip THEN new_board ELSE Put(new_board, p, Get(new_board, p) + 1)
        n == IF skip THEN beads ELSE beads - 1
    IN  IF n = 0 THEN [new_board |-> b, final_pos |-> p]
        ELSE Drop(self, b, p, n, player)

\* mutant: the beads opposite are added to the base but stay in their pit
TakeOppositeKept(self, new_board, player, opposite) ==
    LET base == self.OFFSETS[player]
    IN  Put(new_board, base, Get(new_board, base) + Get(new_board, opposite))

\* mutant: the opposite pit is reduced by the base's new count, not set to 0
TakeOppositeMinusBase(self, new_board, player, opposite) ==
    LET base == self.OFFSETS[player]
        b1 == Put(new_board, base, Get(new_board, base) + Get(new_board, opposite))
    IN  Put(b1, opposite, Get(b1, opposite) - Get(b1, base))

\* mutant: the base is set to the beads opposite, = written for +=
TakeOppositeAssign(self, new_board, player, opposite) ==
    LET base == self.OFFSETS[player]
        b1 == Put(new_board, base, Get(new_board, opposite))
    IN  Put(b1, opposite, 0)

\* the two assignments that claim the beads opposite
TakeOpposite(self, new_board, player, opposite) ==
    LET base == self.OFFSETS[player]
        b1 == Put(new_board, base, Get(new_board, base) + Get(new_board, opposite))
    IN  Put(b1, opposite, 0)

\* mutant: the final pit is not required to be on the mover's side
ClaimsAnySide(self, new_board, final_pos, player) ==
    /\ final_pos # self.OFFSETS["ONE"] /\ final_pos # self.OFFSETS["TWO"]
    /\ Get(new_board, final_pos) = 1

\* does the final bead claim the beads opposite?
Claims(self, new_board, final_pos, player) ==
    /\ final_pos # self.OFFSETS["ONE"] /\ final_pos # self.OFFSETS["TWO"]
    /\ Get(new_board, final_pos) = 1
    /\ \/ (player = "ONE" /\ in_p1_range(self, final_pos))
       \/ (player = "TWO" /\ in_p2_range(self, final_pos))

ClaimOpposite(self, new_board, final_pos, player) ==
    IF Claims(self, new_board, final_pos, player)
    THEN TakeOpposite(self, new_board, player, get_opposite(self, final_pos))
    ELSE new_board

\* mutant: POTS built with range(0, HALF)
ValidPotWide(self, src_pos) == src_pos \in 0..(self.HALF - 1)

\* the pots move accepts
ValidPot(self, src_pos) == InList(src_pos, self.POTS)

\* move, on new_board, the copy of self.board: the new contents of that copy,
\* or the exception raised before the copy is written
move(self, new_board, player, src_pos) ==
    IF ~ValidPot(self, src_pos) THEN Raise("AssertionError")
    ELSE LET pos == self.OFFSETS[player] + src_pos
             beads == Get(new_board, pos)
         IN  IF beads = 0 THEN Raise("Exception")
             ELSE LET sown == Drop(self, Put(new_board, pos, 0), pos, beads, player)
                  IN  Return(ClaimOpposite(self, sown.new_board, sown.final_pos, player))

\* mutant: the pit read is the one below the pot
possible_movesBelow(self, board, player) ==
    LET offset == self.OFFSETS[player]
    IN  SelectSeq(self.POTS, LAMBDA pot : Get(board, offset + pot - 1) # 0)

possible_moves(self, board, player) ==
    LET offset == self.OFFSETS[player]
    IN  SelectSeq(self.POTS, LAMBDA pot : Get(board, offset + pot) # 0)

\* mutant: the result is (s1 > s2) - (s1 < s2)
p1_wins_bySign(self, board) ==
    LET s1 == sum(Slice(board, 0, self.HALF))
        s2 == sum(Slice(board, self.HALF, self.END))
    IN  (IF s1 > s2 THEN 1 ELSE 0) - (IF s1 < s2 THEN 1 ELSE 0)

p1_wins_by(self, board) ==
    LET s1 == sum(Slice(board, 0, self.HALF))
        s2 == sum(Slice(board, self.HALF, self.END))
    IN  s1 - s2

\* mutant: only the mover's possible moves are looked at
TreeEndsMoverOnly(self, board, player) ==
    possible_moves(self, board, player) = <<>>

\* tree returns self.p1_wins_by(): the other player has no possible move, or
\* else the player has none
TreeEnds(self, board, player) ==
    IF possible_moves(self, board, other(player)) = <<>> THEN TRUE
    ELSE possible_moves(self, board, player) = <<>>

\* tree: random.choice is any of the possible moves, so a playout can return
\* any member of this set
RECURSIVE tree(_, _, _)
tree(self, board, player) ==
    IF possible_moves(self, board, other(player)) = <<>>
    THEN {p1_wins_by(self, board)}
    ELSE LET pm == possible_moves(self, board, player)
         IN  IF pm = <<>>
             THEN {p1_wins_by(self, board)}
             ELSE UNION {tree(self, move(self, board, player, pm[i]).value, other(player)) :
                            i \in 1..Len(pm)}

\* results[n] after the loop "for x in range(self.runs)": any sum of runs playouts
RECURSIVE RunTotals(_, _)
RunTotals(outcomes, runs) ==
    IF runs <= 0 THEN {0}
    ELSE {a + b : a \in RunTotals(outcomes, runs - 1), b \in outcomes}

RECURSIVE Gcd(_, _)
Gcd(a, b) == IF b = 0 THEN a ELSE Gcd(b, a % b)
Abs(x) == IF x < 0 THEN -x ELSE x

\* results[n] /= self.runs, for runs >= 1: the quotient is kept as the exact
\* fraction in lowest terms (the totals are far below 2^53, so two quotients
\* compare as floats the way the fractions do)
Divide(total, runs) ==
    LET g == Gcd(Abs(total), runs)
    IN  [num |-> total \div g, den |-> runs \div g]

FloatLess(x, y) == x.num * y.den < y.num * x.den

\* the dicts hypothetical_moves can return, as item lists in insertion order,
\* for the first k possible moves
RECURSIVE HypotheticalItems(_, _, _, _)
HypotheticalItems(self, board, player, k) ==
    IF k = 0 THEN {<<>>}
    ELSE LET n == possible_moves(self, board, player)[k]
             hypothetical == move(self, board, player, n).value
             totals == RunTotals(tree(self, hypothetical, other(player)), self.runs)
         IN  {Append(r, [k |-> n,
                         v |-> Divide(IF player = "TWO" THEN t * (-1) ELSE t, self.runs)]) :
                 r \in HypotheticalItems(self, board, player, k - 1), t \in totals}

hypothetical_moves(self, board, player) ==
    HypotheticalItems(self, board, player, Len(possible_moves(self, board, player)))

\* (v, k) < (w, j) as Python orders tuples
TupleLess(a, b) == FloatLess(a.v, b.v) \/ (a.v = b.v /\ a.k < b.k)

\* mutant: the first best entry found wins, max(results, key=results.get)
suggestFirstBest(results) ==
    IF results = <<>> THEN -1
    ELSE LET i == CHOOSE i \in 1..Len(results) :
                     /\ \A j \in 1..Len(results) : ~FloatLess(results[i].v, results[j].v)
                     /\ \A j \in 1..(i - 1) : FloatLess(results[j].v, results[i].v)
         IN  results[i].k

\* suggest, given the dict hypothetical_moves returned; None is modelled as -1
suggest(results) ==
    IF results = <<>> THEN -1
    ELSE LET i == CHOOSE i \in 1..Len(results) :
                     \A j \in 1..Len(results) : j # i => TupleLess(results[j], results[i])
         IN  results[i].k

\* ------------------------------------------------------------------- heap
\* a new list is stored at the lowest free address
NewAddr(free) == CHOOSE n \in free : \A m \in free : n <= m

\* mutant: new_board = self.board, no copy
CopyAddrAlias(a, free) == a

\* new_board = [x for x in self.board]: the address of the copy of the list at a
CopyAddr(a, free) == NewAddr(free)

Reachable(nm) == {nm[v].board : v \in {w \in Names : nm[w].tag = "State"}}

\* ------------------------------------------------------------- the caller
RECURSIVE ListsOf(_, _)
ListsOf(len, total) ==
    IF len = 0 THEN {<<>>}
    ELSE UNION {{Append(l, v) : v \in 0..(total - sum(l))} : l \in ListsOf(len - 1, total)}

BoardInputs == UNION {ListsOf(n, MaxTotal) : n \in 0..MaxLen}
AskedInputs == UNION {ListsOf(n, MaxAsked) : n \in 0..MaxLen}
PosInputs == (-1)..MaxLen
PotInputs == 0..(MaxLen \div 2)

\* the defaults of the flags -m, -n, -p, -q
NoArgs == [move_p1 |-> FALSE, move_p2 |-> FALSE, human_p1 |-> FALSE, human_p2 |-> FALSE]
\* -p and -q are not read when -m or -n is given
ArgsInputs ==
    {f \in [move_p1 : BOOLEAN, move_p2 : BOOLEAN, human_p1 : BOOLEAN, human_p2 : BOOLEAN] :
        (f.move_p1 \/ f.move_p2) => (~f.human_p1 /\ ~f.human_p2)}
RunsInputs == (0..MaxRuns) \cup {RunsLimit + 1}

NoCall == [op |-> "none", player |-> "", pot |-> 0, self |-> NoState, before |-> <<>>,
           ok |-> TRUE, error |-> "", board |-> <<>>, pots |-> <<>>, int |-> 0,
           results |-> <<>>, pos |-> 0, flag |-> FALSE]

Init ==
    /\ heap = [a \in Addrs |-> <<>>]
    /\ live = {}
    /\ names = [v \in Names |-> NoState]
    /\ made = [v \in Names |-> <<>>]
    /\ last = NoCall
    /\ pc = "start"
    /\ args = NoArgs

\* s = State(board, runs)
New(board, runs) ==
    /\ pc = "start"
    /\ UNCHANGED args
    /\ LET a == NewAddr(Addrs \ live)
           r == StateInit(a, board, runs)
       IN  /\ last' = [NoCall EXCEPT !.op = "State", !.before = board,
                                     !.ok = r.ok, !.error = r.error]
           /\ IF r.ok
              THEN /\ heap' = [heap EXCEPT ![a] = board]
                   /\ live' = {a}
                   /\ names' = [names EXCEPT !["s"] = r.value]
                   /\ made' = [made EXCEPT !["s"] = board]
                   /\ pc' = "play"
              ELSE /\ pc' = "raised"
                   /\ UNCHANGED <<heap, live, names, made>>

\* t = src.move(player, pot): the caller keeps the State it constructed in s
\* and binds every State that move returns to t
Move(src, player, pot) ==
    /\ pc = "play"
    /\ UNCHANGED args
    /\ names[src].tag = "State"
    /\ LET self == names[src]
           a == CopyAddr(self.board, Addrs \ live)
           r == move(self, heap[self.board], player, pot)
       IN  /\ last' = [NoCall EXCEPT !.op = "move", !.player = player, !.pot = pot,
                                     !.self = self, !.before = heap[self.board],
                                     !.ok = r.ok, !.error = r.error,
                                     !.board = r.value]
           /\ IF r.ok
              THEN LET nm == [names EXCEPT !["t"] = StateFields(a, r.value, self.runs)]
                       h == [heap EXCEPT ![a] = r.value]
                   IN  /\ names' = nm
                       /\ live' = Reachable(nm)
                       /\ heap' = [x \in Addrs |-> IF x \in Reachable(nm) THEN h[x] ELSE <<>>]
                       /\ made' = [made EXCEPT !["t"] = r.value]
                       /\ pc' = "play"
              ELSE /\ pc' = "raised"
                   /\ UNCHANGED <<heap, live, names, made>>

\* src.possible_moves(player)
PossibleMoves(src, player) ==
    /\ pc = "play"
    /\ UNCHANGED args
    /\ names[src].tag = "State"
    /\ LET self == names[src]
       IN  last' = [NoCall EXCEPT !.op = "possible_moves", !.player = player,
                                  !.self = self, !.before = heap[self.board],
                                  !.pots = possible_moves(self, heap[self.board], player)]
    /\ UNCHANGED <<heap, live, names, made, pc>>

\* src.p1_wins_by()
P1WinsBy(src) ==
    /\ pc = "play"
    /\ UNCHANGED args
    /\ names[src].tag = "State"
    /\ LET self == names[src]
       IN  last' = [NoCall EXCEPT !.op = "p1_wins_by",
                                  !.self = self, !.before = heap[self.board],
                                  !.int = p1_wins_by(self, heap[self.board])]
    /\ UNCHANGED <<heap, live, names, made, pc>>

\* src.suggest(player)
Suggest(src, player) ==
    /\ pc = "play"
    /\ UNCHANGED args
    /\ names[src].tag = "State"
    /\ LET self == names[src]
       IN  \E results \in hypothetical_moves(self, heap[self.board], player) :
              last' = [NoCall EXCEPT !.op = "suggest", !.player = player,
                                     !.self = self, !.before = heap[self.board],
                                     !.results = results, !.int = suggest(results)]
    /\ UNCHANGED <<heap, live, names, made, pc>>

\* src.in_p1_range(pos)
InP1Range(src, pos) ==
    /\ pc = "play"
    /\ UNCHANGED args
    /\ names[src].tag = "State"
    /\ LET self == names[src]
           r == IF ~ValidPos(self, pos) THEN Raise("AssertionError")
                ELSE Return(in_p1_range(self, pos))
       IN  /\ last' = [NoCall EXCEPT !.op = "in_p1_range", !.pos = pos, !.self = self,
                                     !.before = heap[self.board], !.ok = r.ok,
                                     !.error = r.error, !.flag = (r.ok /\ r.value)]
           /\ pc' = IF r.ok THEN "play" ELSE "raised"
    /\ UNCHANGED <<heap, live, names, made>>

\* src.in_p2_range(pos)
InP2Range(src, pos) ==
    /\ pc = "play"
    /\ UNCHANGED args
    /\ names[src].tag = "State"
    /\ LET self == names[src]
           r == IF ~ValidPos(self, pos) THEN Raise("AssertionError")
                ELSE Return(in_p2_range(self, pos))
       IN  /\ last' = [NoCall EXCEPT !.op = "in_p2_range", !.pos = pos, !.self = self,
                                     !.before = heap[self.board], !.ok = r.ok,
                                     !.error = r.error, !.flag = (r.ok /\ r.value)]
           /\ pc' = IF r.ok THEN "play" ELSE "raised"
    /\ UNCHANGED <<heap, live, names, made>>

\* src.get_opposite(pos)
GetOpposite(src, pos) ==
    /\ pc = "play"
    /\ UNCHANGED args
    /\ names[src].tag = "State"
    /\ LET self == names[src]
           r == IF ~ValidPos(self, pos) THEN Raise("AssertionError")
                ELSE Return(get_opposite(self, pos))
       IN  /\ last' = [NoCall EXCEPT !.op = "get_opposite", !.pos = pos, !.self = self,
                                     !.before = heap[self.board], !.ok = r.ok,
                                     !.error = r.error, !.int = IF r.ok THEN r.value ELSE 0]
           /\ pc' = IF r.ok THEN "play" ELSE "raised"
    /\ UNCHANGED <<heap, live, names, made>>

\* src.tree(player) is called: the first frame of a playout
TreeCall(src, player) ==
    /\ pc = "play"
    /\ UNCHANGED args
    /\ names[src].tag = "State"
    /\ last' = [NoCall EXCEPT !.op = "tree", !.player = player, !.self = names[src],
                              !.before = heap[names[src].board]]
    /\ pc' = "tree"
    /\ UNCHANGED <<heap, live, names, made>>

\* one frame of tree runs: it returns self.p1_wins_by(), or it makes
\* s = self.move(player, n) for a random possible move n and calls
\* s.tree(player.other), whose value it returns as its own.  The State of the
\* frame that called is not read again, so only the newest State is kept in t.
TreeStep ==
    /\ pc = "tree"
    /\ UNCHANGED args
    /\ LET self == last.self
           player == last.player
           board == heap[self.board]
       IN  IF TreeEnds(self, board, player)
           THEN /\ last' = [last EXCEPT !.int = p1_wins_by(self, board)]
                /\ pc' = "returned"
                /\ UNCHANGED <<heap, live, names, made>>
           ELSE \E n \in {Get(possible_moves(self, board, player), i) :
                              i \in 0..(Len(possible_moves(self, board, player)) - 1)} :
                   LET a == CopyAddr(self.board, Addrs \ live)
                       r == move(self, board, player, n)
                   IN  IF r.ok
                       THEN LET st == StateFields(a, r.value, self.runs)
                                nm == [names EXCEPT !["t"] = st]
                                h == [heap EXCEPT ![a] = r.value]
                            IN  /\ names' = nm
                                /\ live' = Reachable(nm)
                                /\ heap' = [x \in Addrs |->
                                               IF x \in Reachable(nm) THEN h[x] ELSE <<>>]
                                /\ made' = [made EXCEPT !["t"] = r.value]
                                /\ last' = [NoCall EXCEPT !.op = "tree", !.pot = n,
                                                          !.player = other(player),
                                                          !.self = st, !.before = r.value]
                                /\ pc' = "tree"
                       ELSE /\ last' = [last EXCEPT !.pot = n, !.ok = FALSE,
                                                     !.error = r.error]
                            /\ pc' = "raised"
                            /\ UNCHANGED <<heap, live, names, made>>

\* n = s.suggest(player): the pots suggest can answer with, None as -1
Suggested(self, board, player) ==
    {suggest(results) : results \in hypothetical_moves(self, board, player)}

\* main up to its loop: the arguments are parsed and checked and s = State(...)
MainStart(board, runs, flags) ==
    /\ pc = "start"
    /\ args' = flags
    /\ LET a == NewAddr(Addrs \ live)
           r == IF ~(MinBoard <= Len(board) /\ Len(board) <= MaxBoard) THEN Raise("AssertionError")
                ELSE IF ~(0 < runs /\ runs <= RunsLimit) THEN Raise("AssertionError")
                ELSE StateInit(a, board, runs)
       IN  /\ last' = [NoCall EXCEPT !.op = "main", !.before = board,
                                     !.ok = r.ok, !.error = r.error]
           /\ IF r.ok
              THEN /\ heap' = [heap EXCEPT ![a] = board]
                   /\ live' = {a}
                   /\ names' = [names EXCEPT !["s"] = r.value]
                   /\ made' = [made EXCEPT !["s"] = board]
                   /\ pc' = IF flags.move_p1 \/ flags.move_p2 THEN "move_once" ELSE "p1"
              ELSE /\ pc' = "raised"
                   /\ UNCHANGED <<heap, live, names, made>>

\* s = s.move(player, n) in main: s is bound to the State move returns
Rebind(self, board) ==
    LET a == CopyAddr(self.board, Addrs \ live)
        nm == [names EXCEPT !["s"] = StateFields(a, board, self.runs)]
        h == [heap EXCEPT ![a] = board]
    IN  /\ names' = nm
        /\ live' = Reachable(nm)
        /\ heap' = [x \in Addrs |-> IF x \in Reachable(nm) THEN h[x] ELSE <<>>]
        /\ made' = [made EXCEPT !["s"] = board]

\* main with -m or -n: one suggested move is made and the board printed
MainMoveOnce ==
    /\ pc = "move_once"
    /\ UNCHANGED args
    /\ LET self == names["s"]
           board == heap[self.board]
           player == IF args.move_p1 THEN "ONE" ELSE "TWO"
       IN  \E n \in Suggested(self, board, player) :
              LET r == move(self, board, player, n)
              IN  /\ last' = [NoCall EXCEPT !.op = "move_once", !.player = player,
                                            !.pot = n, !.int = n, !.self = self,
                                            !.before = board, !.ok = r.ok,
                                            !.error = r.error, !.board = r.value]
                  /\ IF r.ok
                     THEN Rebind(self, r.value) /\ pc' = "exit"
                     ELSE pc' = "raised" /\ UNCHANGED <<heap, live, names, made>>

\* one half of an iteration of main's loop: the player's turn.  The loop is
\* left when the player has no possible move; a human player is asked for a
\* pot until move accepts it; otherwise the suggested pot is moved.
MainTurn(player) ==
    /\ pc = (IF player = "ONE" THEN "p1" ELSE "p2")
    /\ UNCHANGED args
    /\ LET self == names["s"]
           board == heap[self.board]
           human == IF player = "ONE" THEN args.human_p1 ELSE args.human_p2
           next == IF player = "ONE" THEN "p2" ELSE "p1"
           call == [NoCall EXCEPT !.op = "turn", !.player = player, !.self = self,
                                  !.before = board, !.flag = human]
       IN  IF possible_moves(self, board, player) = <<>>
           THEN /\ last' = [call EXCEPT !.op = "break"]
                /\ pc' = "score"
                /\ UNCHANGED <<heap, live, names, made>>
           ELSE IF human
           THEN \E n \in PotInputs :
                   LET r == move(self, board, player, n)
                   IN  /\ last' = [call EXCEPT !.pot = n, !.int = n, !.ok = r.ok,
                                               !.error = r.error, !.board = r.value]
                       /\ IF r.ok
                          THEN Rebind(self, r.value) /\ pc' = next
                          ELSE UNCHANGED <<heap, live, names, made, pc>>
           ELSE \E n \in Suggested(self, board, player) :
                   LET r == move(self, board, player, n)
                   IN  /\ last' = [call EXCEPT !.pot = n, !.int = n, !.ok = r.ok,
                                               !.error = r.error, !.board = r.value]
                       /\ IF r.ok
                          THEN Rebind(self, r.value) /\ pc' = next
                          ELSE pc' = "raised" /\ UNCHANGED <<heap, live, names, made>>

\* after the loop: the score s1 : s2 is printed
MainScore ==
    /\ pc = "score"
    /\ LET self == names["s"]
           board == heap[self.board]
       IN  last' = [NoCall EXCEPT !.op = "score", !.self = self, !.before = board,
                                  !.pots = <<sum(Slice(board, 0, self.HALF)),
                                             sum(Slice(board, self.HALF, self.END))>>]
    /\ pc' = "exit"
    /\ UNCHANGED <<heap, live, names, made, args>>

\* the board engine: a State is built, then moves are made on it and on the
\* boards they return
Next ==
    \/ \E board \in BoardInputs : New(board, DefaultRuns)
    \/ \E src \in Names, player \in Players, pot \in PotInputs :
          Move(src, player, pot)

Spec == Init /\ [][Next]_vars

\* the queries and the advisor: a State is built, then asked
NextQuery ==
    \/ \E board \in AskedInputs, runs \in 1..MaxRuns : New(board, runs)
    \/ \E src \in Names, player \in Players : PossibleMoves(src, player)
    \/ \E src \in Names : P1WinsBy(src)
    \/ \E src \in Names, player \in Players : Suggest(src, player)

SpecQuery == Init /\ [][NextQuery]_vars

\* the position methods: a State is built, then asked about positions
NextPos ==
    \/ \E board \in BoardInputs : New(board, DefaultRuns)
    \/ \E src \in Names, pos \in PosInputs : InP1Range(src, pos)
    \/ \E src \in Names, pos \in PosInputs : InP2Range(src, pos)
    \/ \E src \in Names, pos \in PosInputs : GetOpposite(src, pos)

SpecPos == Init /\ [][NextPos]_vars

\* the command line program
NextMain ==
    \/ \E board \in BoardInputs, runs \in RunsInputs, flags \in ArgsInputs :
          MainStart(board, runs, flags)
    \/ MainMoveOnce
    \/ \E player \in Players : MainTurn(player)
    \/ MainScore

SpecMain == Init /\ [][NextMain]_vars

\* a playout: a State is built and tree is called on it
NextPlayout ==
    \/ \E board \in BoardInputs : New(board, DefaultRuns)
    \/ \E src \in Names, player \in Players : TreeCall(src, player)
    \/ TreeStep

SpecPlayout == Init /\ [][NextPlayout]_vars

\* the interpreter goes on running a frame of tree that has been entered
SpecPlayoutFair == SpecPlayout /\ WF_vars(TreeStep)

\* ------------------------------------------------- the rules, stated afresh
\* The board before the last move, read without the State's own fields.
Half(b) == Len(b) \div 2
Opponent(player) == IF player = "ONE" THEN "TWO" ELSE "ONE"
BaseOf(b, player) == IF player = "ONE" THEN 0 ELSE Half(b)
PitsOf(b, player) ==
    IF player = "ONE" THEN 1..(Half(b) - 1) ELSE (Half(b) + 1)..(Len(b) - 1)

RECURSIVE Beads(_, _)
Beads(b, S) ==
    IF S = {} THEN 0
    ELSE LET q == CHOOSE x \in S : TRUE IN Get(b, q) + Beads(b, S \ {q})

All(b) == 0..(Len(b) - 1)

Moved == last.op = "move" /\ last.ok
Refused == last.op = "move" /\ ~last.ok
Mover == last.player
SrcPos == BaseOf(last.before, Mover) + last.pot
Picked == Get(last.before, SrcPos)
\* one lap of the board from SrcPos downwards, the opponent's base left out
Lap ==
    SelectSeq([i \in 1..Len(last.before) |-> (SrcPos - i) % Len(last.before)],
              LAMBDA q : q # BaseOf(last.before, Opponent(Mover)))
NthPos(k) == Lap[((k - 1) % Len(Lap)) + 1]
Hits(q) == Cardinality({k \in 1..Picked : NthPos(k) = q})
Sown(q) == (IF q = SrcPos THEN 0 ELSE Get(last.before, q)) + Hits(q)
FinalPos == NthPos(Picked)
Opposite == Len(last.before) - FinalPos
OnOwnPit == FinalPos \in PitsOf(last.before, Mover)
OwnBase == BaseOf(last.before, Mover)
OtherBase == BaseOf(last.before, Opponent(Mover))
\* how often the sowing reaches the mover's base: it is the pot-th position
\* sown, and again after every full lap of 2H-1 positions
Passes ==
    IF Picked >= last.pot
    THEN (Picked - last.pot) \div (Len(last.before) - 1) + 1
    ELSE 0
\* the sowing went past the end of the board
Wrapped == Picked > SrcPos
Bound(v) == names[v].tag = "State"
Board(v) == heap[names[v].board]

\* C1: a legal move keeps the total number of beads: the board move returns
\* holds as many beads as the board it was called on, wrapping and capturing
\* moves included, so every board derived from s holds as many beads as s.
C1_BeadConservation ==
    /\ Moved => Beads(last.board, All(last.board)) = Beads(last.before, All(last.before))
    /\ Bound("t") => Beads(Board("t"), All(Board("t"))) = Beads(Board("s"), All(Board("s")))

\* a move that wrapped past the end of the board and captured
C1_Witness ==
    /\ Moved /\ Wrapped /\ OnOwnPit /\ Sown(FinalPos) = 1
    /\ Get(last.board, OwnBase) > Get(last.before, OwnBase) + Hits(OwnBase)

\* C2 as amended: the final bead captures exactly when it lands on a pit of the
\* mover's own side that holds one bead once the sowing is done; the beads
\* moved to the mover's base are those the opposite pit holds after the sowing
\* (its count before the move plus the bead sown into it by a wrapping move),
\* and the opposite pit ends at 0.  A final pit holding more than one bead
\* after the sowing captures nothing.
C2_CaptureAfterSowing ==
    Moved =>
        IF OnOwnPit /\ Sown(FinalPos) = 1
        THEN /\ Get(last.board, Opposite) = 0
             /\ Get(last.board, OwnBase) = Sown(OwnBase) + Sown(Opposite)
        ELSE /\ FinalPos \notin {OwnBase, OtherBase} =>
                    Get(last.board, Opposite) = Sown(Opposite)
             /\ Get(last.board, OwnBase) = Sown(OwnBase)

\* a wrapping move whose final bead captured a bead it had sown opposite
C2_Witness ==
    /\ Moved /\ Wrapped /\ OnOwnPit /\ Sown(FinalPos) = 1
    /\ Hits(Opposite) = 1
    /\ Get(last.board, OwnBase) = Sown(OwnBase) + Get(last.before, Opposite) + 1

\* C2 as stated: landing on an own pit that was empty before the move moves
\* exactly the opposite pit's count before the move to the base; landing on a
\* pit that was not empty before the move captures nothing.
C2_CapturePriorCount ==
    Moved =>
        /\ (OnOwnPit /\ Get(last.before, FinalPos) = 0) =>
              /\ Get(last.board, Opposite) = 0
              /\ Get(last.board, OwnBase) = Sown(OwnBase) + Get(last.before, Opposite)
        /\ (OnOwnPit /\ Get(last.before, FinalPos) > 0) =>
              /\ Get(last.board, Opposite) = Sown(Opposite)
              /\ Get(last.board, OwnBase) = Sown(OwnBase)

\* C3: a legal move leaves the opponent's base as it was, however often the
\* sowing passes it; passing it costs no bead (the other positions together
\* still hold what they held), and the mover's base gains one bead for each
\* time the sowing passes it, plus what the final bead captures.
C3_BaseSkip ==
    Moved =>
        /\ Get(last.board, OtherBase) = Get(last.before, OtherBase)
        /\ Beads(last.board, All(last.board) \ {OtherBase})
              = Beads(last.before, All(last.before) \ {OtherBase})
        /\ Get(last.board, OwnBase) >= Get(last.before, OwnBase) + Passes
        /\ ~(OnOwnPit /\ Sown(FinalPos) = 1) =>
              Get(last.board, OwnBase) = Get(last.before, OwnBase) + Passes

\* a move that sowed past the opponent's base and on
C3_Witness ==
    /\ Moved
    /\ Picked > last.pot + Half(last.before) - 1
    /\ Get(last.board, OwnBase) > Get(last.before, OwnBase)

\* C4: move raises, returns no board and changes nothing when the pot is
\* outside 1..H-1 or its pit is empty, and returns a board for every pot of
\* 1..H-1 whose pit holds a bead.
C4_Step ==
    (pc = "play" /\ last'.op = "move") =>
        LET b == heap[last'.self.board]
            legal == /\ last'.pot \in 1..(Half(b) - 1)
                     /\ Get(b, BaseOf(b, last'.player) + last'.pot) > 0
        IN  /\ last'.before = b
            /\ last'.ok <=> legal
            /\ ~legal => /\ last'.error # "" /\ last'.board = <<>>
                         /\ heap' = heap /\ names' = names /\ live' = live
                         /\ pc' = "raised"
            /\ legal => /\ last'.error = "" /\ Len(last'.board) = Len(b)
                        /\ Bound("t")' /\ Board("t")' = last'.board

C4_InvalidMove == [][C4_Step]_vars

\* a move refused for an empty pit of the mover's side, s left as it was built
C4_Witness ==
    /\ Refused
    /\ last.pot \in 1..(Half(last.before) - 1)
    /\ Picked = 0
    /\ Board("s") = made["s"]

\* C5 as amended: State(board) raises for every list of odd length and
\* succeeds for every list of even length, lengths 0 and 2 included.
C5_EvenLengthOnly ==
    last.op = "State" => (last.ok <=> Len(last.before) % 2 = 0)

\* a State built from a list of two entries
C5_Witness == last.op = "State" /\ last.ok /\ Len(last.before) = 2

\* C5 as stated: State(board) raises for every list that is odd or shorter
\* than 4, and succeeds for every even length from 4 on.
C5_EvenAndAtLeastFour ==
    last.op = "State" =>
        (last.ok <=> (Len(last.before) % 2 = 0 /\ Len(last.before) >= 4))

\* C8: move leaves the board it is called on as it was, whether it returns or
\* raises, and the board it returns is a list of its own: the State kept in s
\* holds the contents it was built with after any number of moves on it and
\* on the boards derived from it.
C8_ValueSemantics ==
    /\ \A v \in Names : Bound(v) => Board(v) = made[v]
    /\ (Bound("s") /\ Bound("t")) => names["s"].board # names["t"].board
    /\ (last.op = "move" /\ last.self = names["s"]) => Board("s") = last.before

\* a move on a board that an earlier move on s returned
C8_Witness ==
    /\ Moved /\ Bound("t")
    /\ last.self # names["s"]
    /\ last.before # made["s"]
    /\ Board("t") # last.before

\* C9: every board reachable by legal moves from a board without negative
\* entries has no negative entry, and is as long as the board it came from.
C9_NonNegative ==
    \A v \in Names : Bound(v) =>
        /\ \A q \in All(Board(v)) : Get(Board(v), q) >= 0
        /\ Len(Board(v)) = Len(made["s"])
        /\ names[v].END = Len(made["s"])

\* a board two or more moves away from s, reached by a capture
C9_Witness ==
    /\ Moved /\ last.self # names["s"]
    /\ OnOwnPit /\ Sown(FinalPos) = 1 /\ Sown(Opposite) > 0
    /\ Get(last.before, OwnBase) > 0

\* the pots of the asked player that hold a bead
LegalPots == {k \in 1..(Half(last.before) - 1) :
                 Get(last.before, BaseOf(last.before, last.player) + k) > 0}

\* C6: possible_moves(player) lists, in strictly ascending order, exactly the
\* pots 1..H-1 of the player's side whose pit holds a bead; it is empty
\* exactly when all of the player's pits are empty.
C6_PossibleMoves ==
    last.op = "possible_moves" =>
        /\ \A i \in 1..(Len(last.pots) - 1) : last.pots[i] < last.pots[i + 1]
        /\ {last.pots[i] : i \in 1..Len(last.pots)} = LegalPots
        /\ (last.pots = <<>>) <=>
              (\A q \in PitsOf(last.before, last.player) : Get(last.before, q) = 0)

\* player TWO asked on a board where only the second of TWO's pits and one of ONE's hold beads
C6_Witness ==
    /\ last.op = "possible_moves" /\ last.player = "TWO"
    /\ Len(last.before) = 6
    /\ last.pots = <<2>>
    /\ Get(last.before, 0) > 0 /\ Get(last.before, 1) > 0 /\ Get(last.before, 3) > 0

Swapped(b) == SubSeq(b, Half(b) + 1, Len(b)) \o SubSeq(b, 1, Half(b))

\* C7: p1_wins_by is the beads of positions 0..H-1 minus the beads of
\* positions H..2H-1, and swapping the two halves of the board negates it.
C7_WinMargin ==
    last.op = "p1_wins_by" =>
        /\ last.int = Beads(last.before, 0..(Half(last.before) - 1))
                      - Beads(last.before, Half(last.before)..(Len(last.before) - 1))
        /\ p1_wins_by(last.self, Swapped(last.before)) = -last.int

\* a margin of two or more for player TWO
C7_Witness ==
    last.op = "p1_wins_by" /\ last.int < -1 /\ Len(last.before) = 6

Margin(k) ==
    LET i == CHOOSE i \in 1..Len(last.results) : last.results[i].k = k
    IN  last.results[i].v
AtMost(x, y) == x.num * y.den <= y.num * x.den

\* C10: suggest(player) returns None exactly when the player has no legal
\* move; otherwise it returns a legal pot whose average margin is the highest
\* of the evaluation, the highest-numbered one of those that share it.
C10_Suggest ==
    last.op = "suggest" =>
        /\ {last.results[i].k : i \in 1..Len(last.results)} = LegalPots
        /\ (last.int = -1) <=> (LegalPots = {})
        /\ last.int # -1 =>
              /\ last.int \in LegalPots
              /\ \A k \in LegalPots : AtMost(Margin(k), Margin(last.int))
              /\ \A k \in LegalPots : Margin(k) = Margin(last.int) => k <= last.int

\* two pots share the best average margin and the higher one is suggested
C10_Witness ==
    /\ last.op = "suggest" /\ last.int = 2
    /\ LegalPots = {1, 2}
    /\ Margin(1) = Margin(2)

\* the final bead of the last move claims the beads opposite
Captured == OnOwnPit /\ Sown(FinalPos) = 1
Pits(b) == PitsOf(b, "ONE") \cup PitsOf(b, "TWO")

\* C13: when the final bead lands on a base, on a pit of the opponent's side
\* or on a pit that held a bead before the final bead was placed, the result
\* is the sown board: no pit but the source pit holds fewer beads than before
\* the move, and the mover's base gains only the beads sown into it.
C13_NoCaptureOtherwise ==
    (Moved /\ (FinalPos = OwnBase \/ ~OnOwnPit \/ Sown(FinalPos) > 1)) =>
        /\ \A q \in All(last.before) : Get(last.board, q) = Sown(q)
        /\ \A q \in All(last.before) \ {SrcPos} : Get(last.board, q) >= Get(last.before, q)
        /\ Get(last.board, OwnBase) = Get(last.before, OwnBase) + Passes

\* the final bead landed alone on a pit of the opponent's side whose opposite
\* pit, on the mover's side, holds beads: nothing was claimed
C13_Witness ==
    /\ Moved
    /\ FinalPos \in PitsOf(last.before, Opponent(Mover))
    /\ Sown(FinalPos) = 1
    /\ Get(last.board, Opposite) > 0

\* C14: a legal move of n beads from position p empties p and adds one bead at
\* each of the first n positions of the cycle p-1, p-2, ... (mod 2H) without
\* the opponent's base: but for the base and the pit a capture changes, the
\* result is that board; the source pit ends at 0 when n < 2H-1 and holds the
\* beads sown into it when n >= 2H-1; a capture empties the pit opposite the
\* n-th position of the cycle.
C14_SowingOrder ==
    Moved =>
        /\ \A q \in All(last.before) :
              (~Captured \/ q \notin {OwnBase, Opposite}) => Get(last.board, q) = Sown(q)
        /\ Get(last.board, SrcPos) =
              (IF Picked < Len(last.before) - 1 THEN 0 ELSE Picked \div (Len(last.before) - 1))
        /\ Captured => Get(last.board, Opposite) = 0

\* a move of more than a full lap on a board of one pot a side: the source pit
\* received a bead and the final bead went on
C14_Witness ==
    /\ Moved /\ Len(last.before) = 4
    /\ Picked >= Len(last.before) - 1
    /\ Get(last.board, SrcPos) = 1
    /\ FinalPos # SrcPos

\* C19: a move leaves the opponent's base as it was and adds to the mover's
\* base the beads sown into it and the beads captured, so no base ever holds
\* less, and the pits never hold more, than on the board the moves started from.
C19_BasesOnlyGrow ==
    /\ Moved =>
          /\ Get(last.board, OtherBase) = Get(last.before, OtherBase)
          /\ Get(last.board, OwnBase) =
                Get(last.before, OwnBase) + Passes + (IF Captured THEN Sown(Opposite) ELSE 0)
          /\ Beads(last.board, Pits(last.board)) <= Beads(last.before, Pits(last.before))
    /\ Bound("t") =>
          /\ \A p \in Players :
                Get(Board("t"), BaseOf(Board("t"), p)) >= Get(Board("s"), BaseOf(Board("s"), p))
          /\ Beads(Board("t"), Pits(Board("t"))) <= Beads(Board("s"), Pits(Board("s")))

\* after two or more moves both bases hold more than on s, the last move a capture
C19_Witness ==
    /\ Moved /\ Captured /\ Sown(Opposite) > 0
    /\ last.self # names["s"]
    /\ Get(last.before, OwnBase) > 0
    /\ \A p \in Players :
          Get(Board("t"), BaseOf(Board("t"), p)) > Get(Board("s"), BaseOf(Board("s"), p))

\* C20: on the board with its halves swapped, the other player's move from the
\* same pot is legal exactly when the move is, returns the result with its
\* halves swapped, and the other player's possible moves are the player's.
C20_PlayerSymmetry ==
    last.op = "move" =>
        LET mirrored == move(last.self, Swapped(last.before), Opponent(Mover), last.pot)
        IN  /\ mirrored.ok = last.ok
            /\ mirrored.error = last.error
            /\ last.ok => mirrored.value = Swapped(last.board)
            /\ possible_moves(last.self, Swapped(last.before), Opponent(Mover))
                  = possible_moves(last.self, last.before, Mover)
            /\ last.ok <=> InList(last.pot, possible_moves(last.self, Swapped(last.before),
                                                           Opponent(Mover)))

\* a move of player TWO that sowed past ONE's base and captured, on a board that
\* is not its own mirror
C20_Witness ==
    /\ Moved /\ Mover = "TWO" /\ Captured
    /\ Picked > last.pot + Half(last.before) - 1
    /\ Swapped(last.before) # last.before

Asked(op) == last.op = op /\ last.ok /\ Half(last.before) >= 2
One(x) == IF x THEN 1 ELSE 0

\* C15: on a board with H >= 2, each position 0..2H-1 is exactly one of ONE's
\* base, TWO's base, a pit of ONE's range and a pit of TWO's range;
\* get_opposite returns None for the bases and 2H - pos otherwise, takes the
\* pits of either range to the other's, and is its own inverse.  Positions
\* outside 0..2H-1 are refused.
C15_Positions ==
    /\ last.op \in {"in_p1_range", "in_p2_range", "get_opposite"} =>
          (last.ok <=> last.pos \in All(last.before))
    /\ Asked("in_p1_range") =>
          /\ last.flag <=> last.pos \in 1..(Half(last.before) - 1)
          /\ One(last.pos = 0) + One(last.pos = Half(last.before)) + One(last.flag)
                + One(in_p2_range(last.self, last.pos)) = 1
    /\ Asked("in_p2_range") =>
          /\ last.flag <=> last.pos \in (Half(last.before) + 1)..(Len(last.before) - 1)
          /\ One(last.pos = 0) + One(last.pos = Half(last.before)) + One(last.flag)
                + One(in_p1_range(last.self, last.pos)) = 1
    /\ Asked("get_opposite") =>
          IF last.pos \in {0, Half(last.before)}
          THEN last.int = -1
          ELSE /\ last.int = Len(last.before) - last.pos
               /\ last.int \in All(last.before)
               /\ in_p1_range(last.self, last.pos) <=> in_p2_range(last.self, last.int)
               /\ in_p2_range(last.self, last.pos) <=> in_p1_range(last.self, last.int)
               /\ get_opposite(last.self, last.int) = last.pos

\* the pit opposite a pit of TWO's range, on a board of two pots a side
C15_Witness ==
    /\ Asked("get_opposite") /\ Len(last.before) = 6
    /\ last.pos = 4 /\ last.int = 2

\* the board of the doctests of hypothetical_moves and suggest
DocBoard == <<0, 1, 1, 0, 1, 1>>
Whole(n) == [num |-> n, den |-> 1]

\* C11: on the board [0,1,1,0,1,1] with ONE to choose, every playout after
\* ONE plays pot 1 ends with margin +2 and every playout after pot 2 ends
\* with margin -2, so for any number of runs >= 1 the evaluation is
\* {1: 2.0, 2: -2.0} and suggest returns pot 1.
C11_DocScenario ==
    (last.op = "suggest" /\ last.before = DocBoard /\ last.player = "ONE") =>
        /\ last.self.runs >= 1
        /\ tree(last.self, move(last.self, DocBoard, "ONE", 1).value, "TWO") = {2}
        /\ tree(last.self, move(last.self, DocBoard, "ONE", 2).value, "TWO") = {-2}
        /\ last.results = <<[k |-> 1, v |-> Whole(2)], [k |-> 2, v |-> Whole(-2)]>>
        /\ last.ok /\ last.int = 1

\* suggest has answered for ONE on the doctest board, with more than one run
C11_Witness ==
    /\ last.op = "suggest" /\ last.before = DocBoard /\ last.player = "ONE"
    /\ last.self.runs = MaxRuns /\ last.int = 1

\* the rules of the game on a board b, stated without the engine
RuleLegal(b, player) == {k \in 1..(Half(b) - 1) : Get(b, BaseOf(b, player) + k) > 0}
RuleLap(b, player, k) ==
    SelectSeq([i \in 1..Len(b) |-> (BaseOf(b, player) + k - i) % Len(b)],
              LAMBDA q : q # BaseOf(b, Opponent(player)))
RuleSown(b, player, k, lap) ==
    LET src == BaseOf(b, player) + k
    IN  [i \in 1..Len(b) |->
            (IF i - 1 = src THEN 0 ELSE b[i])
              + Cardinality({j \in 1..Get(b, src) : lap[((j - 1) % (Len(b) - 1)) + 1] = i - 1})]
RuleMove(b, player, k) ==
    LET lap == RuleLap(b, player, k)
        sown == RuleSown(b, player, k, lap)
        final == lap[((Get(b, BaseOf(b, player) + k) - 1) % (Len(b) - 1)) + 1]
        base == BaseOf(b, player)
    IN  IF final \in PitsOf(b, player) /\ Get(sown, final) = 1
        THEN [i \in 1..Len(b) |->
                 IF i - 1 = base THEN Get(sown, base) + Get(sown, Len(b) - final)
                 ELSE IF i - 1 = Len(b) - final THEN 0
                 ELSE sown[i]]
        ELSE sown
RuleMargin(b) == Beads(b, 0..(Half(b) - 1)) - Beads(b, Half(b)..(Len(b) - 1))

\* the margins a game played out from b can end with, player moving first
RECURSIVE RulePlayouts(_, _)
RulePlayouts(b, player) ==
    IF RuleLegal(b, "ONE") = {} \/ RuleLegal(b, "TWO") = {}
    THEN {RuleMargin(b)}
    ELSE UNION {RulePlayouts(RuleMove(b, player, k), Opponent(player)) :
                   k \in RuleLegal(b, player)}

\* the sums of n values taken from S
RECURSIVE RuleSums(_, _)
RuleSums(S, n) == IF n = 0 THEN {0} ELSE {x + y : x \in RuleSums(S, n - 1), y \in S}

\* C16: hypothetical_moves(player) has an entry for exactly each legal pot of
\* the player; the entry for pot n is the sum of runs playout margins, each
\* playout started from the board after the player's move n with the other
\* player to move, negated for TWO, divided by runs; the evaluated board is
\* left as it was.
C16_HypotheticalMoves ==
    last.op = "suggest" =>
        /\ {last.results[i].k : i \in 1..Len(last.results)} = RuleLegal(last.before, last.player)
        /\ Len(last.results) = Cardinality(RuleLegal(last.before, last.player))
        /\ \A i \in 1..Len(last.results) :
              LET r == last.results[i]
                  after == RuleMove(last.before, last.player, r.k)
                  margins == RulePlayouts(after, Opponent(last.player))
                  sign == IF last.player = "TWO" THEN -1 ELSE 1
              IN  /\ r.v.den > 0
                  /\ \E total \in RuleSums(margins, last.self.runs) :
                        r.v.num * last.self.runs = sign * total * r.v.den
        /\ heap[last.self.board] = last.before
        /\ \A v \in Names : Bound(v) => Board(v) = made[v]

\* TWO was advised on a board where the playouts of a pot can end with
\* different margins, and two playouts of that pot averaged to a value that no
\* single playout ends with
C16_Witness ==
    /\ last.op = "suggest" /\ last.player = "TWO" /\ last.self.runs = 2
    /\ Len(last.results) >= 2
    /\ \E i \in 1..Len(last.results) :
          LET r == last.results[i]
              margins == RulePlayouts(RuleMove(last.before, "TWO", r.k), "ONE")
          IN  /\ Cardinality(margins) >= 2
              /\ r.v.den = 1 /\ (-1) * r.v.num \notin margins

Frame == heap[last.self.board]
BothCanMove(b) == RuleLegal(b, "ONE") # {} /\ RuleLegal(b, "TWO") # {}

\* C12: in a playout the acting player alternates after each applied move; a
\* move is applied only on a board where both players have a legal move, and
\* the pot applied is a legal move of the current mover; the value returned is
\* the margin of the first board reached on which some player has no legal
\* move (the starting board itself if it is one, whichever player is named).
C12_PlayoutSteps ==
    [][pc = "tree" =>
          IF BothCanMove(Frame)
          THEN /\ pc' = "tree"
               /\ last'.player = Opponent(last.player)
               /\ last'.pot \in RuleLegal(Frame, last.player)
               /\ heap'[last'.self.board] = RuleMove(Frame, last.player, last'.pot)
               /\ last'.before = heap'[last'.self.board]
          ELSE /\ pc' = "returned"
               /\ last'.int = RuleMargin(Frame)
               /\ last'.player = last.player
               /\ UNCHANGED heap]_vars

\* a playout has returned after both players moved: both bases were empty on
\* the starting board and both hold beads on the board it ended on
C12_Witness ==
    /\ pc = "returned" /\ last.op = "tree"
    /\ Bound("t") /\ last.self = names["t"]
    /\ Get(Board("t"), 0) > 0 /\ Get(Board("t"), Half(Board("t"))) > 0
    /\ Beads(Board("s"), {0, Half(Board("s"))}) = 0
    /\ last.int = RuleMargin(Board("t")) /\ last.int # RuleMargin(Board("s"))

\* the beads outside the two bases, and the sum over the pits of both sides
\* of pot number times beads
Outside(b) == Beads(b, PitsOf(b, "ONE") \cup PitsOf(b, "TWO"))
RECURSIVE Weight(_, _)
Weight(b, k) ==
    IF k <= 0 THEN 0
    ELSE k * (Get(b, k) + Get(b, Half(b) + k)) + Weight(b, k - 1)
Measure(b) == <<Outside(b), Weight(b, Half(b) - 1)>>
LexLess(x, y) == x[1] < y[1] \/ (x[1] = y[1] /\ x[2] < y[2])

\* C18: every playout, whatever pots the random choice picks, reaches a board
\* where some player has no legal move after finitely many moves and returns:
\* each move applied strictly decreases the pair (beads outside the bases,
\* sum over pits of pot number times beads) in lexicographic order, and the
\* pair never goes below (0, 0).
C18_PlayoutTerminates ==
    /\ [][(pc = "tree" /\ pc' = "tree") =>
             /\ LexLess(Measure(heap'[last'.self.board]), Measure(Frame))
             /\ Outside(heap'[last'.self.board]) >= 0
             /\ Weight(heap'[last'.self.board], Half(Frame) - 1) >= 0]_vars
    /\ (pc = "tree") ~> (pc = "returned")

\* a playout has returned on a board with at most one bead outside the bases,
\* having started with three or more outside them
C18_Witness ==
    /\ pc = "returned" /\ last.op = "tree"
    /\ Bound("t") /\ last.self = names["t"]
    /\ Outside(Board("s")) >= 3 /\ Outside(Board("t")) <= 1

Turned == last.op = "turn" /\ last.ok

\* C17: in the game loop of main the game is over as soon as one player has no
\* beads in their pots: no move, typed or suggested, is applied to a board on
\* which either player has no legal move, and suggest is never asked for a
\* move it answers with None.
C17_GameOverForEither ==
    /\ Turned => BothCanMove(last.before)
    /\ (last.op = "turn" /\ ~last.flag) => last.int # -1

====
